---- MODULE Spec2Model ----
(***************************************************************************)
(* res_stasis_amqp: the bridge from the Stasis / AMI event bus to AMQP.    *)
(*                                                                         *)
(* State: the module's statics (confs, sub, manager,                       *)
(* stasis_app_sched_context), the host's view of them (live subscriptions, *)
(* registered applications) and one in-flight callback per event source:   *)
(*   "A"  stasis_channel_event_handler  (channel topic subscription)       *)
(*   "B"  stasis_app_event_handler      (per-application callback)         *)
(*   "C"  ami_event_handler             (manager topic subscription)       *)
(* A callback is cut at every point where it reads the shared              *)
(* configuration object, so that a configuration swap can fall between two *)
(* reads; what lies between two reads is local and belongs to one step.    *)
(* The callbacks share nothing they write, so the bus is taken to run them *)
(* one at a time; every control operation (reload, unload, registration)   *)
(* may fall between any two steps of the callback in flight.               *)
(***************************************************************************)
EXTENDS Integers, Sequences, FiniteSets, TLC

\* ----------------------------------------------------------------- bounds
\* options a configuration file sets; the others take their defaults
MaxOptions == 2
\* characters of a routing key suffix handed to new_routing_key taken alone
MaxSuffixLen == 3
\* characters of a field blob handed to manager_event_to_json taken alone
MaxFieldsLen == 5

\* -------------------------------------------------------------- constants
\* a null pointer / an absent option / an absent JSON member
NULL == "<null>"

Variants == {"A", "B", "C"}
Topics == {"channel", "manager"}
Apps == {"myApp"}

\* connection names amqp.conf defines: ast_amqp_get_connection resolves no other
AmqpConnections == {"amqp"}

\* the topic whose subscription drives a callback
TopicOf(v) == IF v = "A" THEN "channel" ELSE "manager"

\* ------------------------------------------------- configuration (aco layer)
\* stasis_amqp.conf as the option framework sees it: an option is absent
\* (NULL) or has its text; the two lists are given as their comma-separated
\* tokens, already stripped.
AllConfFiles ==
    [ connection : {NULL, "amqp"},
      exchange : {NULL, "xch"},
      publish_ami_events : {NULL, "no"},
      publish_channel_events : {NULL, "no"},
      exclude_events : {<<>>, <<"Newstate", "", "ChannelCreated">>},
      include_channelvarset_events : {<<>>, <<"CDR", "">>} ]

\* the options a file sets
OptionsSet(f) ==
    {o \in {"connection", "exchange", "publish_ami_events", "publish_channel_events"} :
        f[o] # NULL}
    \cup (IF f.exclude_events # <<>> THEN {"exclude_events"} ELSE {})
    \cup (IF f.include_channelvarset_events # <<>>
          THEN {"include_channelvarset_events"} ELSE {})

ConfFiles == {f \in AllConfFiles : Cardinality(OptionsSet(f)) <= MaxOptions}

\* no configuration object (confs holds no reference)
NoConf == [null |-> TRUE]

ast_true(s) == s \in {"yes", "true", "y", "t", "1", "on"}

\* OPT_STRINGFIELD_T with default "": a string field is never a null pointer
StringOption(text, default) == IF text = NULL THEN default ELSE text

\* OPT_BOOL_T with a default text
BoolOption(text, default) == IF text = NULL THEN ast_true(default) ELSE ast_true(text)

\* exclude_events_handler: every non-empty token is inserted in the table
exclude_events_handler(tokens) ==
    {tokens[i] : i \in {j \in DOMAIN tokens : tokens[j] # ""}}

\* include_channelvarset_events_handler: the same, for variable names
include_channelvarset_events_handler(tokens) ==
    {tokens[i] : i \in {j \in DOMAIN tokens : tokens[j] # ""}}

\* the snapshot aco_process_config builds from a file: conf_global_create,
\* the defaults, then the options the file sets
NewSnapshot(f) ==
    [ connection |-> StringOption(f.connection, ""),
      exchange |-> StringOption(f.exchange, ""),
      publish_ami_events |-> BoolOption(f.publish_ami_events, "yes"),
      publish_channel_events |-> BoolOption(f.publish_channel_events, "yes"),
      exclude_events |-> exclude_events_handler(f.exclude_events),
      include_channelvarset_events |->
          include_channelvarset_events_handler(f.include_channelvarset_events) ]

\* ---------------------------------------------------------------- state
VARIABLES
    state,                      \* lifecycle: "Unloaded", "Active", "Unloading"
    loadResult,                 \* what the last load_module returned
    loadFailure,                \* history: the step the last load_module failed at
    loaded,                     \* history: the flags load_module last ran with
    unloadDone,                 \* unload_module has returned
    confs,                      \* AO2_GLOBAL_OBJ_STATIC(confs): the snapshot, or NoConf
    manager,                    \* static manager: "NULL", "valid", "freed"
    sub,                        \* static sub: "NULL", "valid", "freed"
    topicSubs,                  \* live subscriptions of this module, per topic
    stasis_app_sched_context,   \* "NULL", "created", "started"
    registered_apps,            \* applications registered with stasis_app_register
    upc,                        \* unload_module's position
    uconf,                      \* unload_module's conf
    pc,                         \* each callback's position
    ev,                         \* the message each callback was called with
    name,                       \* each callback's event_name
    pconf,                      \* publish_to_amqp's conf: the two fields it reads
    out,                        \* what the callback did: status, publish calls, the call
    seen,                       \* history: what the callback found in confs
    call                        \* one call of a function taken alone: arguments, result

vars == << state, loadResult, loadFailure, loaded, unloadDone, confs, manager,
           sub, topicSubs, stasis_app_sched_context, registered_apps,
           upc, uconf, pc, ev, name, pconf, out, seen, call >>

lifeVars == << state, loadResult, loadFailure, loaded, unloadDone, confs, manager,
               sub, topicSubs, stasis_app_sched_context, upc, uconf >>

slotVars == << pc, ev, name, pconf, out, seen >>

\* no message
NoEvent == [null |-> TRUE]
\* no publish call
NoPub == [null |-> TRUE]
\* conn: the references to a broker connection the callback holds;
\* header_table: the entries of the header table, "none", "allocated", "freed"
\* json_refs: the references to the event document the callback took or
\* created and has not given up
NoOut == [status |-> "none", calls |-> 0, pub |-> NoPub, conn |-> 0,
          header_table |-> "none", json_refs |-> 0]
\* swapped: confs was replaced since the callback was entered; stale: the
\* callback has read confs after that; excluded: the exclude table held the
\* event name when the callback consulted it; varset_checked: the callback
\* consulted the include table; included: the include table was empty or
\* held the variable when the callback last filtered
NoSeen == [swapped |-> FALSE, stale |-> FALSE, excluded |-> FALSE,
           varset_checked |-> FALSE, included |-> FALSE]

\* no function is called alone
NoCall == [fn |-> "none"]

\* the process has faulted (a null or dangling pointer was dereferenced)
Crashed == upc = "fault" \/ \E v \in Variants : pc[v] = "fault"

Init ==
    /\ state = "Unloaded"
    /\ loadResult = "none"
    /\ loadFailure = "none"
    /\ loaded = [ami |-> FALSE, chan |-> FALSE]
    /\ unloadDone = FALSE
    /\ confs = NoConf
    /\ manager = "NULL"
    /\ sub = "NULL"
    /\ topicSubs = [t \in Topics |-> 0]
    /\ stasis_app_sched_context = "NULL"
    /\ registered_apps = {}
    /\ upc = "none"
    /\ uconf = NoConf
    /\ pc = [v \in Variants |-> "idle"]
    /\ ev = [v \in Variants |-> NoEvent]
    /\ name = [v \in Variants |-> NULL]
    /\ pconf = [v \in Variants |-> NoConf]
    /\ out = [v \in Variants |-> NoOut]
    /\ seen = [v \in Variants |-> NoSeen]
    /\ call = NoCall


\* ------------------------------------------------------------ host: stasis
\* stasis_unsubscribe_and_join on a static: a null pointer is ignored, a
\* live subscription is removed (the static keeps its value, now dangling)
PtrAfterUnsubscribe(p) == IF p = "valid" THEN "freed" ELSE p

SubsAfterUnsubscribe(p, ts, t) == IF p = "valid" THEN [ts EXCEPT ![t] = @ - 1] ELSE ts

\* ------------------------------------------------------------- lifecycle
LoadFailures == {"none", "config", "manager_sub", "sched_create", "chan_sub", "sched_start"}

\* load_config: ACO_PROCESS_ERROR leaves confs as it was; otherwise the new
\* snapshot replaces it
load_config(f, ok) == IF ok THEN NewSnapshot(f) ELSE confs

\* load_module subscribing to the manager topic whatever the flag says
SubscribesManager_always(conf) == TRUE

\* line 797: whether load_module subscribes to the manager topic
SubscribesManager(conf) == conf.publish_ami_events

\* line 813: whether load_module subscribes to the channel topic
SubscribesChannel(conf) == conf.publish_channel_events

\* whether load_module reaches a step at all, given where it fails
LoadFailureApplies(conf, fail) ==
    /\ fail = "manager_sub" => SubscribesManager(conf)
    /\ fail = "chan_sub" => SubscribesChannel(conf)

\* a failure path of load_module that unsubscribes manager only
TeardownUnsubscribes_manager_only(conf, t) ==
    t = "manager" /\ conf.publish_ami_events

\* line 806-808, 817-819, 826-831: whether a failure path of load_module
\* calls stasis_unsubscribe_and_join for a topic it may have subscribed to
TeardownUnsubscribes(conf, t) ==
    IF t = "channel" THEN conf.publish_channel_events ELSE conf.publish_ami_events

\* load_module going on although load_config failed
ConfigFailureResult_ignored == "success"

\* line 790-793: what load_module returns when load_config fails
ConfigFailureResult == "decline"

\* load_module, start to return: the statics it leaves and its result
load_module(f, fail) ==
    LET conf == load_config(f, fail # "config")
        ami == SubscribesManager(conf)
        chan == SubscribesChannel(conf)
        \* line 797-803
        m1 == IF ami THEN (IF fail = "manager_sub" THEN "NULL" ELSE "valid") ELSE manager
        t1 == IF ami /\ fail # "manager_sub"
              THEN [topicSubs EXCEPT !["manager"] = @ + 1] ELSE topicSubs
        \* line 813-822
        s1 == IF chan THEN (IF fail = "chan_sub" THEN "NULL" ELSE "valid") ELSE sub
        t2 == IF chan /\ fail # "chan_sub"
              THEN [t1 EXCEPT !["channel"] = @ + 1] ELSE t1
        \* the teardown on a failure path, gated by the flags
        amiDown == TeardownUnsubscribes(conf, "manager")
        chanDown == TeardownUnsubscribes(conf, "channel")
        mDown == IF amiDown THEN PtrAfterUnsubscribe(m1) ELSE m1
        tDownM(ts) == IF amiDown THEN SubsAfterUnsubscribe(m1, ts, "manager") ELSE ts
        sDown == IF chanDown THEN PtrAfterUnsubscribe(s1) ELSE s1
        tDownS(ts) == IF chanDown THEN SubsAfterUnsubscribe(s1, ts, "channel") ELSE ts
    IN  CASE fail = "config" ->
               [result |-> ConfigFailureResult, confs |-> confs, swapped |-> FALSE,
                manager |-> manager, sub |-> sub, topicSubs |-> topicSubs,
                sched |-> stasis_app_sched_context]
          [] fail = "manager_sub" ->
               [result |-> "decline", confs |-> conf, swapped |-> TRUE,
                manager |-> m1, sub |-> sub, topicSubs |-> topicSubs,
                sched |-> stasis_app_sched_context]
          [] fail = "sched_create" ->
               [result |-> "decline", confs |-> conf, swapped |-> TRUE,
                manager |-> mDown, sub |-> sub, topicSubs |-> tDownM(t1),
                sched |-> "NULL"]
          [] fail = "chan_sub" ->
               [result |-> "decline", confs |-> conf, swapped |-> TRUE,
                manager |-> mDown, sub |-> s1, topicSubs |-> tDownM(t1),
                sched |-> "created"]
          [] fail = "sched_start" ->
               [result |-> "decline", confs |-> conf, swapped |-> TRUE,
                manager |-> mDown, sub |-> sDown, topicSubs |-> tDownS(tDownM(t2)),
                sched |-> "created"]
          [] OTHER ->
               [result |-> "success", confs |-> conf, swapped |-> TRUE,
                manager |-> m1, sub |-> s1, topicSubs |-> t2,
                sched |-> "started"]

\* no callback is running
BusIdle == \A v \in Variants : pc[v] = "idle"

\* the host loads the module (module load), possibly again after a decline
Load(f, fail) ==
    /\ state = "Unloaded" /\ ~unloadDone /\ ~Crashed
    /\ LoadFailureApplies(NewSnapshot(f), fail)
    /\ LET r == load_module(f, fail) IN
        /\ loadResult' = r.result
        /\ loadFailure' = fail
        /\ loaded' = IF r.swapped
                      THEN [ami |-> r.confs.publish_ami_events,
                            chan |-> r.confs.publish_channel_events]
                      ELSE loaded
        /\ confs' = r.confs
        /\ manager' = r.manager
        /\ sub' = r.sub
        /\ topicSubs' = r.topicSubs
        /\ stasis_app_sched_context' = r.sched
        /\ state' = IF r.result = "success" THEN "Active" ELSE "Unloaded"
    /\ UNCHANGED << unloadDone, registered_apps, upc, uconf >>
    /\ UNCHANGED slotVars
    /\ UNCHANGED call

\* a reload that also brings the subscriptions in line with the new flags
Reload_resubscribes(f) ==
    /\ state = "Active" /\ ~Crashed
    /\ \A v \in Variants : pc[v] # "done"
    /\ confs' = load_config(f, TRUE)
    /\ topicSubs' = [t \in Topics |->
                       IF t = "manager"
                       THEN (IF confs'.publish_ami_events THEN 1 ELSE 0)
                       ELSE (IF confs'.publish_channel_events THEN 1 ELSE 0)]
    /\ seen' = [v \in Variants |->
                 IF pc[v] # "idle" THEN [seen[v] EXCEPT !.swapped = TRUE] ELSE seen[v]]
    /\ UNCHANGED << state, loadResult, loadFailure, loaded, unloadDone, manager, sub,
                    stasis_app_sched_context, registered_apps, upc, uconf >>
    /\ UNCHANGED << pc, ev, name, pconf, out >>
    /\ UNCHANGED call

\* load_config(1) with ACO_PROCESS_OK: the configuration is read again while
\* the module runs, and the new snapshot replaces the old one. load_config
\* takes the reload flag and makes no stasis call; AST_MODULE_INFO (line
\* 838-844) names no reload entry, so the call comes from outside this file.
\* A reload that falls when the callback in flight has only its return ahead
\* is the reload that falls after the return, and is taken then.
Reload(f) ==
    /\ state = "Active" /\ ~Crashed
    /\ \A v \in Variants : pc[v] # "done"
    /\ confs' = load_config(f, TRUE)
    /\ seen' = [v \in Variants |->
                 IF pc[v] # "idle" THEN [seen[v] EXCEPT !.swapped = TRUE] ELSE seen[v]]
    /\ UNCHANGED << state, loadResult, loadFailure, loaded, unloadDone, manager, sub, topicSubs,
                    stasis_app_sched_context, registered_apps, upc, uconf >>
    /\ UNCHANGED << pc, ev, name, pconf, out >>
    /\ UNCHANGED call

\* unload_module and the callbacks commute: unload_module reads confs and
\* writes the three statics, a callback reads confs and writes its locals.
\* A run in which the two overlap has the same outcome as the run in which
\* the callback in flight ends before unload_module begins and the next
\* message is delivered when it has returned, so only those runs are kept.
BusQuiet == state # "Unloading"

\* unload_module, line 754-759: conf is taken, the scheduler context destroyed
UnloadBegin ==
    /\ state = "Active" /\ ~Crashed
    /\ BusIdle
    /\ state' = "Unloading"
    /\ uconf' = confs
    /\ stasis_app_sched_context' = "NULL"
    /\ upc' = "unsub_sub"
    /\ UNCHANGED << loadResult, loadFailure, loaded, unloadDone, confs, manager, sub, topicSubs,
                    registered_apps >>
    /\ UNCHANGED slotVars
    /\ UNCHANGED call

\* whether unload_module calls stasis_unsubscribe_and_join for a topic: the
\* flag of the snapshot it took
UnloadUnsubscribes(conf, t) ==
    IF t = "channel" THEN conf.publish_channel_events ELSE conf.publish_ami_events

\* line 761-763: stasis_unsubscribe_and_join(sub), if the flag is set. The
\* call returns once the channel callback has run to its end (its last run
\* is the final message, on which it returns at line 354); a dangling
\* pointer handed to stasis faults.
UnloadSub ==
    /\ upc = "unsub_sub" /\ ~Crashed
    /\ IF ~UnloadUnsubscribes(uconf, "channel")
       THEN /\ upc' = "unsub_manager"
            /\ UNCHANGED << sub, topicSubs >>
       ELSE IF sub = "freed"
       THEN /\ upc' = "fault"
            /\ UNCHANGED << sub, topicSubs >>
       ELSE /\ pc["A"] = "idle"
            /\ upc' = "unsub_manager"
            /\ sub' = PtrAfterUnsubscribe(sub)
            /\ topicSubs' = SubsAfterUnsubscribe(sub, topicSubs, "channel")
    /\ UNCHANGED << state, loadResult, loadFailure, loaded, unloadDone, confs, manager,
                    stasis_app_sched_context, registered_apps, uconf >>
    /\ UNCHANGED slotVars
    /\ UNCHANGED call

\* line 764-768: stasis_unsubscribe_and_join(manager), if the flag is set,
\* and unload_module returns 0
UnloadManager ==
    /\ upc = "unsub_manager" /\ ~Crashed
    /\ IF ~UnloadUnsubscribes(uconf, "manager")
       THEN /\ upc' = "done" /\ state' = "Unloaded" /\ unloadDone' = TRUE
            /\ UNCHANGED << manager, topicSubs >>
       ELSE IF manager = "freed"
       THEN /\ upc' = "fault"
            /\ UNCHANGED << manager, topicSubs, state, unloadDone >>
       ELSE /\ pc["C"] = "idle"
            /\ upc' = "done" /\ state' = "Unloaded" /\ unloadDone' = TRUE
            /\ manager' = PtrAfterUnsubscribe(manager)
            /\ topicSubs' = SubsAfterUnsubscribe(manager, topicSubs, "manager")
    /\ UNCHANGED << loadResult, loadFailure, loaded, confs, sub, stasis_app_sched_context,
                    registered_apps, uconf >>
    /\ UNCHANGED slotVars
    /\ UNCHANGED call

\* ast_subscribe_to_stasis: stasis_app_register, its result handed back
SubscribeApp(a) ==
    /\ state = "Active" /\ ~Crashed
    /\ registered_apps' = registered_apps \cup {a}
    /\ UNCHANGED lifeVars
    /\ UNCHANGED slotVars
    /\ UNCHANGED call

\* ast_unsubscribe_from_stasis: stasis_app_unregister
UnsubscribeApp(a) ==
    /\ state = "Active" /\ ~Crashed
    /\ a \in registered_apps
    /\ registered_apps' = registered_apps \ {a}
    /\ UNCHANGED lifeVars
    /\ UNCHANGED slotVars
    /\ UNCHANGED call


\* ---------------------------------------------------------------- filters
\* is_event_excluded with the emptiness test inverted: the table is looked up
\* only when it is empty
is_event_excluded_inverted(conf, event_name) ==
    IF Cardinality(conf.exclude_events) # 0
    THEN FALSE
    ELSE event_name \in conf.exclude_events

\* is_event_excluded against a snapshot: an empty table answers 0 at once,
\* otherwise the table is looked up (ast_hashtab_compare_strings)
is_event_excluded(conf, event_name) ==
    IF Cardinality(conf.exclude_events) = 0
    THEN FALSE
    ELSE event_name \in conf.exclude_events

\* is_channelvarset_included answering from the emptiness test alone: a
\* non-null variable is taken as included without the lookup
is_channelvarset_included_no_lookup(conf, var_name) ==
    IF Cardinality(conf.include_channelvarset_events) = 0
    THEN TRUE
    ELSE var_name # NULL

\* is_channelvarset_included against a snapshot: an empty table includes
\* everything, a null variable is never included in a non-empty table
is_channelvarset_included(conf, var_name) ==
    IF Cardinality(conf.include_channelvarset_events) = 0
    THEN TRUE
    ELSE IF var_name = NULL
    THEN FALSE
    ELSE var_name \in conf.include_channelvarset_events

\* whether a callback consults is_channelvarset_included for an event: the
\* channel and application callbacks do for "ChannelVarset", the manager
\* callback never does
ChecksVarset(v, event_name) == v \in {"A", "B"} /\ event_name = "ChannelVarset"

\* ------------------------------------------------------------ routing key
\* A C string is the sequence of its characters. The names of this model:
Chars(s) ==
    CASE s = "stasis.channel" ->
           << "s", "t", "a", "s", "i", "s", ".", "c", "h", "a", "n", "n", "e", "l" >>
      [] s = "stasis.app" -> << "s", "t", "a", "s", "i", "s", ".", "a", "p", "p" >>
      [] s = "ami" -> << "a", "m", "i" >>
      [] s = "ChannelCreated" ->
           << "C", "h", "a", "n", "n", "e", "l", "C", "r", "e", "a", "t", "e", "d" >>
      [] s = "ChannelVarset" ->
           << "C", "h", "a", "n", "n", "e", "l", "V", "a", "r", "s", "e", "t" >>
      [] s = "Newstate" -> << "N", "e", "w", "s", "t", "a", "t", "e" >>
      [] s = "myApp" -> << "m", "y", "A", "p", "p" >>
      [] s = "Channel" -> << "C", "h", "a", "n", "n", "e", "l" >>
      [] s = "State" -> << "S", "t", "a", "t", "e" >>
      [] s = "CallerIDName" ->
            << "C", "a", "l", "l", "e", "r", "I", "D", "N", "a", "m", "e" >>
      [] s = "" -> << >>

UpperCase ==
    << "A", "B", "C", "D", "E", "F", "G", "H", "I", "J", "K", "L", "M",
       "N", "O", "P", "Q", "R", "S", "T", "U", "V", "W", "X", "Y", "Z" >>

LowerCase ==
    << "a", "b", "c", "d", "e", "f", "g", "h", "i", "j", "k", "l", "m",
       "n", "o", "p", "q", "r", "s", "t", "u", "v", "w", "x", "y", "z" >>

\* tolower leaving every character as it is
tolower_identity(c) == c

\* tolower in the C locale: an upper-case letter gives its lower-case letter,
\* any other character itself
tolower(c) ==
    IF \E i \in DOMAIN UpperCase : UpperCase[i] = c
    THEN LowerCase[CHOOSE i \in DOMAIN UpperCase : UpperCase[i] = c]
    ELSE c

\* snprintf(buf, size, ...) of a text: at most size - 1 characters are written
snprintf(size, text) ==
    IF Len(text) < size THEN text ELSE SubSeq(text, 1, size - 1)

\* new_routing_key with the buffer one character short
new_routing_key_short(prefix, suffix) ==
    LET routing_key_len == Len(prefix) + Len(suffix)
        lowered_suffix == [i \in DOMAIN suffix |-> tolower(suffix[i])]
    IN  snprintf(routing_key_len + 1, prefix \o << "." >> \o lowered_suffix)

\* new_routing_key, every allocation succeeding: the suffix is copied, the
\* copy lowered character by character, and "%s.%s" printed into a buffer of
\* routing_key_len + 1 characters
new_routing_key(prefix, suffix) ==
    LET routing_key_len == Len(prefix) + Len(suffix) + 1
        lowered_suffix == [i \in DOMAIN suffix |-> tolower(suffix[i])]
    IN  snprintf(routing_key_len + 1, prefix \o << "." >> \o lowered_suffix)

routing_key_prefix(v) ==
    CASE v = "A" -> "stasis.channel"
      [] v = "B" -> "stasis.app"
      [] OTHER -> "ami"

\* every callback handing the event name to new_routing_key
routing_key_suffix_event_name(v, e, event_name) == event_name

\* the suffix each callback hands to new_routing_key
routing_key_suffix(v, e, event_name) == IF v = "B" THEN e.app ELSE event_name

\* the headers each callback packs
Headers(v, e, event_name) ==
    CASE v = "A" -> [name |-> event_name, category |-> "stasis"]
      [] v = "B" -> [name |-> event_name, category |-> "stasis",
                     application_name |-> e.app]
      [] OTHER -> [name |-> event_name, category |-> "ami"]

\* the envelope each callback packs
BusEvent(v, e, event_name) ==
    IF v = "B"
    THEN [name |-> event_name, data |-> e.type, application |-> e.app]
    ELSE [name |-> event_name, data |-> e.type]

\* --------------------------------------------------------------- messages
\* a message as a callback reads it: its "type" (the manager event name for
\* the manager topic), its "variable", and the application it is for
ChannelEvents ==
    { e \in [type : {NULL, "ChannelCreated", "ChannelVarset"},
             variable : {NULL, "CDR", "CALLERID"}, app : {NULL}] :
        e.variable # NULL => e.type = "ChannelVarset" }

AppEvents ==
    { e \in [type : {NULL, "ChannelCreated", "ChannelVarset"},
             variable : {NULL, "CDR", "CALLERID"}, app : Apps] :
        e.variable # NULL => e.type = "ChannelVarset" }

\* a manager event carries its variable in its fields, which no filter reads
ManagerEvents ==
    { e \in [type : {"Newstate", "ChannelVarset"},
             variable : {NULL, "CALLERID"}, app : {NULL}] :
        e.variable # NULL <=> e.type = "ChannelVarset" }

\* the references to the event document a callback has taken or created
\* when it returns with a status: stasis_message_to_json gives the channel
\* callback a new document (line 358), the application callback calls
\* ast_json_ref on its argument (line 454), the manager callback creates
\* event_data once the event is past the exclude table (line 553; a failure
\* before that line counts with the paths that took nothing)
JsonRefsTaken(v, status) ==
    CASE v = "A" -> IF status = "no_json" THEN 0 ELSE 1
      [] v = "B" -> 1
      [] OTHER -> IF status \in {"not_ami", "no_blob", "excluded"} THEN 0 ELSE 1

\* the references it has given up by then: the channel callback calls
\* ast_json_unref where the type is missing (line 364) or the envelope fails
\* (line 384) and lets the envelope's cleanup free a document it has packed
\* (line 346), but returns from the two filters as it is (line 370-372,
\* 376-378); the application callback leaves through done (line 506-507);
\* the manager callback unrefs event_data (line 560, 566) or lets the
\* envelope's cleanup free it (line 523)
JsonRefsGivenUp(v, status) ==
    CASE v = "A" -> IF status \in {"no_json", "excluded", "varset_dropped"} THEN 0 ELSE 1
      [] v = "B" -> 1
      [] OTHER -> JsonRefsTaken(v, status)

JsonRefsHeld(v, status) == JsonRefsTaken(v, status) - JsonRefsGivenUp(v, status)

\* a callback ends: what it did is kept until it returns to the bus
Finish(v, status) ==
    /\ pc' = [pc EXCEPT ![v] = "done"]
    /\ out' = [out EXCEPT ![v].status = status,
                          ![v].json_refs = JsonRefsHeld(v, status)]

\* a callback dereferences a null pointer
Fault(v, status) ==
    /\ pc' = [pc EXCEPT ![v] = "fault"]
    /\ out' = [out EXCEPT ![v].status = status]

\* stasis_channel_event_handler, line 354-366; conv is stasis_message_to_json
\* giving a document
DeliverChannel(e, conv) ==
    /\ pc["A"] = "idle" /\ ~Crashed
    /\ BusIdle /\ BusQuiet
    /\ topicSubs["channel"] > 0
    /\ ev' = [ev EXCEPT !["A"] = e]
    /\ seen' = [seen EXCEPT !["A"] = NoSeen]
    /\ IF ~conv
       THEN Finish("A", "no_json") /\ UNCHANGED name
       ELSE IF e.type = NULL
       THEN Finish("A", "no_type") /\ UNCHANGED name
       ELSE /\ pc' = [pc EXCEPT !["A"] = "is_event_excluded"]
            /\ name' = [name EXCEPT !["A"] = e.type]
            /\ UNCHANGED out
    /\ UNCHANGED pconf
    /\ UNCHANGED lifeVars
    /\ UNCHANGED registered_apps
    /\ UNCHANGED call

\* the callback called for every application, registered or not
app_has_handler_always(apps, app_name) == TRUE

\* whether an event of an application reaches stasis_app_event_handler: the
\* callback is the application's handler from stasis_app_register (line 775)
\* until stasis_app_unregister (line 782)
app_has_handler(apps, app_name) == app_name \in apps

\* stasis_app_event_handler, line 454-461: the type is copied with
\* ast_strdupa before it is tested; copying a null pointer faults
DeliverApp(e) ==
    /\ pc["B"] = "idle" /\ ~Crashed
    /\ BusIdle /\ BusQuiet
    /\ app_has_handler(registered_apps, e.app)
    /\ ev' = [ev EXCEPT !["B"] = e]
    /\ seen' = [seen EXCEPT !["B"] = NoSeen]
    /\ IF e.type = NULL
       THEN Fault("B", "no_type") /\ UNCHANGED name
       ELSE /\ pc' = [pc EXCEPT !["B"] = "is_event_excluded"]
            /\ name' = [name EXCEPT !["B"] = e.type]
            /\ UNCHANGED out
    /\ UNCHANGED pconf
    /\ UNCHANGED lifeVars
    /\ UNCHANGED registered_apps
    /\ UNCHANGED call

\* ami_event_handler, line 531-540; can is stasis_message_can_be_ami, blob
\* is stasis_message_to_ami giving a blob
DeliverManager(e, can, blob) ==
    /\ pc["C"] = "idle" /\ ~Crashed
    /\ BusIdle /\ BusQuiet
    /\ topicSubs["manager"] > 0
    /\ ev' = [ev EXCEPT !["C"] = e]
    /\ seen' = [seen EXCEPT !["C"] = NoSeen]
    /\ IF ~can
       THEN Finish("C", "not_ami") /\ UNCHANGED name
       ELSE IF ~blob
       THEN Finish("C", "no_blob") /\ UNCHANGED name
       ELSE /\ pc' = [pc EXCEPT !["C"] = "is_event_excluded"]
            /\ name' = [name EXCEPT !["C"] = e.type]
            /\ UNCHANGED out
    /\ UNCHANGED pconf
    /\ UNCHANGED lifeVars
    /\ UNCHANGED registered_apps
    /\ UNCHANGED call

\* the call of is_event_excluded and what follows it up to the next read of
\* confs: for "ChannelVarset" the variable is copied with ast_strdupa
StepExcluded(v) ==
    /\ pc[v] = "is_event_excluded" /\ ~Crashed
    /\ seen' = [seen EXCEPT ![v].stale = @ \/ seen[v].swapped,
                            ![v].excluded = name[v] \in confs.exclude_events,
                            ![v].included =
                                \/ confs.include_channelvarset_events = {}
                                \/ ev[v].variable \in confs.include_channelvarset_events]
    /\ IF is_event_excluded(confs, name[v])
       THEN Finish(v, "excluded")
       ELSE IF ChecksVarset(v, name[v])
       THEN IF ev[v].variable = NULL
            THEN Fault(v, "no_variable")
            ELSE /\ pc' = [pc EXCEPT ![v] = "is_channelvarset_included"]
                 /\ UNCHANGED out
       ELSE /\ pc' = [pc EXCEPT ![v] = "publish_to_amqp"]
            /\ UNCHANGED out
    /\ UNCHANGED << ev, name, pconf >>
    /\ UNCHANGED lifeVars
    /\ UNCHANGED registered_apps
    /\ UNCHANGED call

\* the call of is_channelvarset_included
StepIncluded(v) ==
    /\ pc[v] = "is_channelvarset_included" /\ ~Crashed
    /\ seen' = [seen EXCEPT ![v].stale = @ \/ seen[v].swapped,
                            ![v].varset_checked = TRUE,
                            ![v].included =
                                \/ confs.include_channelvarset_events = {}
                                \/ ev[v].variable \in confs.include_channelvarset_events]
    /\ IF is_channelvarset_included(confs, ev[v].variable)
       THEN /\ pc' = [pc EXCEPT ![v] = "publish_to_amqp"]
            /\ UNCHANGED out
       ELSE Finish(v, "varset_dropped")
    /\ UNCHANGED << ev, name, pconf >>
    /\ UNCHANGED lifeVars
    /\ UNCHANGED registered_apps
    /\ UNCHANGED call

\* publish_to_amqp, line 648-658: whether the snapshot lets it go on
Configured(conf) ==
    /\ conf # NoConf
    /\ conf.connection # NULL
    /\ conf.exchange # NULL

\* the envelope, the headers and the routing key are built (built: every
\* allocation succeeded), then publish_to_amqp takes its reference to confs
StepPublishEnter(v, built) ==
    /\ pc[v] = "publish_to_amqp" /\ ~Crashed
    /\ IF ~built
       THEN Finish(v, "build_failed") /\ UNCHANGED << pconf, seen >>
       ELSE /\ seen' = [seen EXCEPT ![v].stale = @ \/ seen[v].swapped]
            /\ IF Configured(confs)
               THEN /\ pconf' = [pconf EXCEPT ![v] =
                          [connection |-> confs.connection, exchange |-> confs.exchange]]
                    /\ pc' = [pc EXCEPT ![v] = "basic_publish"]
                    /\ UNCHANGED out
               ELSE Finish(v, "not_configured") /\ UNCHANGED pconf
    /\ UNCHANGED << ev, name >>
    /\ UNCHANGED lifeVars
    /\ UNCHANGED registered_apps
    /\ UNCHANGED call

\* the arguments of ast_amqp_basic_publish
PublishCall(v, conf) ==
    [ connection |-> conf.connection,
      exchange |-> conf.exchange,
      routing_key |-> new_routing_key(Chars(routing_key_prefix(v)),
                                      Chars(routing_key_suffix(v, ev[v], name[v]))),
      headers |-> Headers(v, ev[v], name[v]),
      body |-> BusEvent(v, ev[v], name[v]) ]

\* the publish call reading the exchange from the global object again
PublishConf_current(v) == confs

\* the snapshot the publish call takes its exchange from: publish_to_amqp's own
PublishConf(v) == pconf[v]

\* a failed publish tried once more
PublishAttempts_retry(ok) == IF ok THEN 1 ELSE 2

\* how many times ast_amqp_basic_publish is called for one message
PublishAttempts(ok) == 1

\* ao2_cleanup(conn) run on the successful return only
ConnCleanup_on_success(status) == status = "published"

\* line 633, RAII_VAR(struct ast_amqp_connection *, conn, NULL, ao2_cleanup):
\* whether a return of publish_to_amqp gives up the reference conn holds
ConnCleanup(status) == TRUE

\* the references publish_to_amqp holds when it has returned; acquired:
\* ast_amqp_get_connection gave a connection (line 660)
ConnHeld(acquired, status) == IF acquired /\ ~ConnCleanup(status) THEN 1 ELSE 0

\* line 702-704: whether publish_to_amqp frees the entries it allocated
HeaderTableFreed(status) == status \in {"published", "publish_failed"}

\* the entries of the header table when publish_to_amqp has returned;
\* allocated: ast_calloc was reached and gave the entries (line 677)
HeaderTable(allocated, status) ==
    IF ~allocated THEN "none"
    ELSE IF HeaderTableFreed(status) THEN "freed" ELSE "allocated"

\* publish_to_amqp returns before the publish call
PublishGivesUp(v, acquired, status) ==
    /\ pc' = [pc EXCEPT ![v] = "done"]
    /\ out' = [out EXCEPT ![v].status = status,
                          ![v].conn = ConnHeld(acquired, status),
                          ![v].json_refs = JsonRefsHeld(v, status),
                          ![v].header_table = HeaderTable(FALSE, status)]

\* publish_to_amqp, line 660-706: the connection is resolved (resolved: the
\* broker answers), the body dumped, the header table allocated, and the
\* publish call made once
StepPublishSend(v, resolved, dumped, alloc, ok) ==
    /\ pc[v] = "basic_publish" /\ ~Crashed
    /\ IF ~(pconf[v].connection \in AmqpConnections /\ resolved)
       THEN PublishGivesUp(v, FALSE, "no_connection")
       ELSE IF ~dumped
       THEN PublishGivesUp(v, TRUE, "dump_failed")
       ELSE IF ~alloc
       THEN \* ast_calloc gave a null pointer and the entries are written
            Fault(v, "no_header_table")
       ELSE LET status == IF ok THEN "published" ELSE "publish_failed" IN
            /\ pc' = [pc EXCEPT ![v] = "done"]
            /\ out' = [out EXCEPT ![v] =
                  [status |-> status,
                   calls |-> out[v].calls + PublishAttempts(ok),
                   pub |-> PublishCall(v, PublishConf(v)),
                   conn |-> ConnHeld(TRUE, status),
                   header_table |-> HeaderTable(TRUE, status),
                   json_refs |-> JsonRefsHeld(v, status)]]
    /\ UNCHANGED << ev, name, pconf, seen >>
    /\ UNCHANGED lifeVars
    /\ UNCHANGED registered_apps
    /\ UNCHANGED call

\* the callback returns to the bus
Return(v) ==
    /\ pc[v] = "done" /\ ~Crashed
    /\ pc' = [pc EXCEPT ![v] = "idle"]
    /\ ev' = [ev EXCEPT ![v] = NoEvent]
    /\ name' = [name EXCEPT ![v] = NULL]
    /\ pconf' = [pconf EXCEPT ![v] = NoConf]
    /\ out' = [out EXCEPT ![v] = NoOut]
    /\ seen' = [seen EXCEPT ![v] = NoSeen]
    /\ UNCHANGED lifeVars
    /\ UNCHANGED registered_apps
    /\ UNCHANGED call

\* ------------------------------------------------------------------ system
Next ==
    \/ \E f \in ConfFiles, fail \in LoadFailures : Load(f, fail)
    \/ \E f \in ConfFiles : Reload(f)
    \/ UnloadBegin
    \/ UnloadSub
    \/ UnloadManager
    \/ \E a \in Apps : SubscribeApp(a)
    \/ \E a \in Apps : UnsubscribeApp(a)
    \/ \E e \in ChannelEvents, conv \in BOOLEAN : DeliverChannel(e, conv)
    \/ \E e \in AppEvents : DeliverApp(e)
    \/ \E e \in ManagerEvents, can \in BOOLEAN, blob \in BOOLEAN : DeliverManager(e, can, blob)
    \/ \E v \in Variants : StepExcluded(v)
    \/ \E v \in Variants : StepIncluded(v)
    \/ \E v \in Variants, built \in BOOLEAN : StepPublishEnter(v, built)
    \/ \E v \in Variants, resolved \in BOOLEAN, dumped \in BOOLEAN,
          alloc \in BOOLEAN, ok \in BOOLEAN : StepPublishSend(v, resolved, dumped, alloc, ok)
    \/ \E v \in Variants : Return(v)

Spec == Init /\ [][Next]_vars

\* ------------------------------------------------- functions taken alone
\* The module as it runs after loading an empty stasis_amqp.conf; from there
\* one function is called once with arguments drawn from a bounded set.
moduleVars == << lifeVars, registered_apps, slotVars >>

EmptyConfFile ==
    [ connection |-> NULL, exchange |-> NULL, publish_ami_events |-> NULL,
      publish_channel_events |-> NULL, exclude_events |-> << >>,
      include_channelvarset_events |-> << >> ]

LoadedInit ==
    /\ state = "Active"
    /\ loadResult = "success"
    /\ loadFailure = "none"
    /\ loaded = [ami |-> TRUE, chan |-> TRUE]
    /\ unloadDone = FALSE
    /\ confs = NewSnapshot(EmptyConfFile)
    /\ manager = "valid"
    /\ sub = "valid"
    /\ topicSubs = [t \in Topics |-> 1]
    /\ stasis_app_sched_context = "started"
    /\ upc = "none"
    /\ uconf = NoConf
    /\ pc = [v \in Variants |-> "idle"]
    /\ ev = [v \in Variants |-> NoEvent]
    /\ name = [v \in Variants |-> NULL]
    /\ pconf = [v \in Variants |-> NoConf]
    /\ out = [v \in Variants |-> NoOut]
    /\ seen = [v \in Variants |-> NoSeen]

\* a char * a function returns: a null pointer or a text
NullText == [null |-> TRUE, text |-> << >>]
Text(t) == [null |-> FALSE, text |-> t]

\* strsep applied until it gives NULL: the text is cut at every character of
\* delims, so n such characters give n + 1 tokens, empty ones included
RECURSIVE strsep(_, _)
strsep(text, delims) ==
    IF \A i \in DOMAIN text : text[i] \notin delims
    THEN << text >>
    ELSE LET i == CHOOSE j \in DOMAIN text :
                      /\ text[j] \in delims
                      /\ \A k \in 1..(j - 1) : text[k] \notin delims
         IN  << SubSeq(text, 1, i - 1) >> \o strsep(SubSeq(text, i + 1, Len(text)), delims)

\* ast_json_object_set on an object of string members
ast_json_object_set(json, key, value) ==
    [k \in DOMAIN json \cup {key} |-> IF k = key THEN value ELSE json[k]]

\* line 420-441, one line: the first word is the key, the last of the other
\* words the value; without a second word the value is NULL and
\* ast_json_string_create gives nothing to set
SetLine(json, line) ==
    LET words == strsep(line, {":", " "})
        key == words[1]
        value == IF Len(words) > 1 THEN Text(words[Len(words)]) ELSE NullText
    IN  IF value.null THEN json ELSE ast_json_object_set(json, key, value.text)

RECURSIVE SetLines(_, _)
SetLines(json, lines) ==
    IF lines = << >> THEN json ELSE SetLines(SetLine(json, Head(lines)), Tail(lines))

EventKey == << "E", "v", "e", "n", "t" >>

\* manager_event_to_json, every allocation succeeding: the object it fills.
\* fields is NULL when the blob has no extra_fields.
manager_event_to_json(event_name, fields) ==
    SetLines([k \in {EventKey} |-> event_name],
             IF fields.null THEN << >> ELSE strsep(fields.text, {"\r", "\n"}))

\* the strings of at most n characters over an alphabet
Strings(alphabet, n) == UNION { [1..k -> alphabet] : k \in 0..n }

\* an upper-case letter, a lower-case letter, a dot, a blank
SuffixAlphabet == {"A", "b", ".", " "}

NewRoutingKeyCalls ==
    { [fn |-> "new_routing_key", prefix |-> Chars(routing_key_prefix(v)), suffix |-> x,
       done |-> FALSE, result |-> NullText] :
         v \in Variants, x \in Strings(SuffixAlphabet, MaxSuffixLen) }

\* new_routing_key(prefix, suffix); copied: ast_strdup gave the copy,
\* allocated: ast_malloc gave the buffer
CallNewRoutingKey(copied, allocated) ==
    /\ call.fn = "new_routing_key" /\ ~call.done
    /\ call' = [call EXCEPT
                  !.done = TRUE,
                  !.result = IF copied /\ allocated
                             THEN Text(new_routing_key(call.prefix, call.suffix))
                             ELSE NullText]
    /\ UNCHANGED moduleVars

\* two letters, the two separators, the two line terminators
FieldsAlphabet == {"k", "v", ":", " ", "\r", "\n"}

\* "Channel: SIP/100\r\nState: Up"
ChannelStateFields ==
    << "C", "h", "a", "n", "n", "e", "l", ":", " ", "S", "I", "P",
       "/", "1", "0", "0", "\r", "\n", "S", "t", "a", "t", "e", ":",
       " ", "U", "p" >>

\* "CallerIDName: John Doe\r\n"
CallerIDNameFields ==
    << "C", "a", "l", "l", "e", "r", "I", "D", "N", "a", "m", "e",
       ":", " ", "J", "o", "h", "n", " ", "D", "o", "e", "\r", "\n" >>

\* the extra_fields of a manager event: absent, short texts, two AMI blobs
FieldBlobs ==
    {NullText}
    \cup {Text(t) : t \in Strings(FieldsAlphabet, MaxFieldsLen)}
    \cup {Text(ChannelStateFields), Text(CallerIDNameFields)}

ManagerEventToJsonCalls ==
    { [fn |-> "manager_event_to_json", event_name |-> Chars("Newstate"), fields |-> f,
       done |-> FALSE, result |-> [rc |-> 0, json |-> << >>]] : f \in FieldBlobs }

\* manager_event_to_json(json, event_name, fields) on an empty object;
\* created: ast_json_string_create gave the string for the event name
CallManagerEventToJson(created) ==
    /\ call.fn = "manager_event_to_json" /\ ~call.done
    /\ call' = [call EXCEPT
                  !.done = TRUE,
                  !.result = IF created
                             THEN [rc |-> 0,
                                   json |-> manager_event_to_json(call.event_name,
                                                                  call.fields)]
                             ELSE [rc |-> -1, json |-> << >>]]
    /\ UNCHANGED moduleVars

\* ------------------------------------------------------- resource_amqp.c
\* args->application_name and args->connection: absent, empty, a name
AriApplicationNames == {NULL, "", "myApp"}
AriConnections == {NULL, "amqp"}

AriFunctions == {"ast_ari_amqp_stasis_subscribe", "ast_ari_amqp_stasis_unsubscribe"}

\* a request of the ARI resource; before is the registry the request found,
\* response the status of the response it filled (0: not filled)
AriCalls ==
    { [fn |-> f, application_name |-> a, connection |-> c,
       done |-> FALSE, before |-> {}, response |-> 0] :
         f \in AriFunctions, a \in AriApplicationNames, c \in AriConnections }

\* subscribe_to_stasis(app_name, connection), resource_amqp.c line 51: the
\* application is registered for stasis_app_event_handler, as
\* ast_subscribe_to_stasis does
subscribe_to_stasis(apps, app_name, connection) == apps \cup {app_name}

\* ast_ari_amqp_stasis_subscribe: a null application_name or connection is
\* answered 400, anything else is handed on and answered 204
AriSubscribe ==
    /\ call.fn = "ast_ari_amqp_stasis_subscribe" /\ ~call.done
    /\ IF call.application_name = NULL \/ call.connection = NULL
       THEN /\ call' = [call EXCEPT !.done = TRUE, !.before = registered_apps,
                                    !.response = 400]
            /\ UNCHANGED registered_apps
       ELSE /\ registered_apps' =
                  subscribe_to_stasis(registered_apps, call.application_name,
                                      call.connection)
            /\ call' = [call EXCEPT !.done = TRUE, !.before = registered_apps,
                                    !.response = 204]
    /\ UNCHANGED lifeVars
    /\ UNCHANGED slotVars

\* ast_ari_amqp_stasis_unsubscribe: a log line and the answer 204
AriUnsubscribe ==
    /\ call.fn = "ast_ari_amqp_stasis_unsubscribe" /\ ~call.done
    /\ call' = [call EXCEPT !.done = TRUE, !.before = registered_apps,
                            !.response = 204]
    /\ UNCHANGED moduleVars

CallInputs == NewRoutingKeyCalls \cup ManagerEventToJsonCalls \cup AriCalls

\* the registry a request can find; the functions taken alone find it empty
InitCalls ==
    /\ LoadedInit
    /\ call \in CallInputs
    /\ registered_apps \in (IF call.fn \in AriFunctions THEN SUBSET Apps ELSE {{}})

NextCalls ==
    \/ \E copied \in BOOLEAN, allocated \in BOOLEAN : CallNewRoutingKey(copied, allocated)
    \/ \E created \in BOOLEAN : CallManagerEventToJson(created)
    \/ AriSubscribe
    \/ AriUnsubscribe

SpecCalls == InitCalls /\ [][NextCalls]_vars

\* ------------------------------------------------------------- properties
\* C1: in every callback (channel, application, manager) an event whose name
\* the exclude table holds when the callback consults it ends as "excluded"
\* with no publish call, and a callback ends as "excluded" only if the table
\* held the name: an empty table drops nothing.
C1_ExcludedNeverPublished ==
    \A v \in Variants :
        /\ seen[v].excluded =>
              /\ pc[v] = "done"
              /\ out[v].status = "excluded"
              /\ out[v].calls = 0
              /\ out[v].pub = NoPub
        /\ out[v].status = "excluded" => seen[v].excluded
        /\ out[v].calls > 0 => ~seen[v].excluded

\* an excluded manager event has been dropped
C1_Witness ==
    /\ pc["C"] = "done"
    /\ name["C"] = "Newstate"
    /\ seen["C"].excluded
    /\ out["C"].status = "excluded"

\* C2 as stated: in every callback a "ChannelVarset" event is published only
\* if the include table is empty or holds its variable.
C2_AllVariantsFilterVarset ==
    \A v \in Variants :
        (name[v] = "ChannelVarset" /\ out[v].calls > 0) => seen[v].included

\* C2 amended: the channel and application callbacks publish a
\* "ChannelVarset" event only if the include table, when they consult it, is
\* empty or holds the variable, and drop it otherwise; the manager callback
\* never consults the include table and never drops an event for it.
C2_StasisVariantsFilterVarset ==
    /\ \A v \in {"A", "B"} :
          /\ (name[v] = "ChannelVarset"
                /\ pc[v] \in {"publish_to_amqp", "basic_publish"})
                => seen[v].varset_checked /\ seen[v].included
          /\ (name[v] = "ChannelVarset" /\ out[v].calls > 0)
                => seen[v].varset_checked /\ seen[v].included
          /\ (seen[v].varset_checked /\ ~seen[v].included)
                => out[v].status = "varset_dropped" /\ out[v].calls = 0
          /\ out[v].status = "varset_dropped"
                => seen[v].varset_checked /\ ~seen[v].included
    /\ ~seen["C"].varset_checked
    /\ out["C"].status # "varset_dropped"

\* a channel "ChannelVarset" event for a variable the table lacks was dropped
C2_Witness ==
    /\ pc["A"] = "done"
    /\ ev["A"].variable = "CALLERID"
    /\ out["A"].status = "varset_dropped"
    /\ out["A"].calls = 0

\* C3: while the module is active the manager subscription is live iff
\* publish_ami_events was set in the loaded configuration, and the channel
\* subscription iff publish_channel_events was; after a load without
\* publish_ami_events the manager callback never runs.
C3_SubscriptionsFollowFlags ==
    /\ state = "Active" =>
          /\ topicSubs["manager"] > 0 <=> loaded.ami
          /\ topicSubs["channel"] > 0 <=> loaded.chan
    /\ (loadResult = "success" /\ ~loaded.ami) =>
          /\ topicSubs["manager"] = 0
          /\ pc["C"] = "idle"
          /\ out["C"] = NoOut

\* loaded without publish_ami_events, with publish_channel_events
C3_Witness ==
    /\ state = "Active"
    /\ ~loaded.ami /\ loaded.chan
    /\ topicSubs["manager"] = 0
    /\ topicSubs["channel"] = 1

\* C4 as stated: unload_module destroys the scheduler context before it
\* unsubscribes, and when it has returned no manager or channel subscription
\* of the module is live and none of their callbacks runs, whatever loads and
\* reloads came before.
C4_UnloadLeavesNoSubscription ==
    /\ upc \in {"unsub_sub", "unsub_manager", "done"} =>
          stasis_app_sched_context = "NULL"
    /\ unloadDone =>
          /\ \A t \in Topics : topicSubs[t] = 0
          /\ pc["A"] = "idle"
          /\ pc["C"] = "idle"

\* C5 as stated: a callback never reads the configuration object after it was
\* replaced since the callback was entered.
C5_SingleSnapshotPerEvent ==
    \A v \in Variants : ~seen[v].stale

\* C5 amended: publish_to_amqp works on the snapshot it took when it was
\* entered: the connection it resolves and the exchange it publishes to are
\* those of that snapshot, whatever replaced the global object meanwhile.
C5_PublishUsesItsSnapshot ==
    \A v \in Variants :
        /\ pc[v] = "basic_publish" => pconf[v] # NoConf
        /\ out[v].pub # NoPub =>
              /\ pconf[v] # NoConf
              /\ out[v].pub.connection = pconf[v].connection
              /\ out[v].pub.exchange = pconf[v].exchange

\* an event was published to the exchange of a snapshot that a reload had
\* replaced before the publish call
C5_Witness ==
    \E v \in Variants :
        /\ pc[v] = "done"
        /\ out[v].status = "published"
        /\ seen[v].swapped
        /\ out[v].pub.exchange = "xch"
        /\ out[v].pub.exchange # confs.exchange

\* C6: a step that replaces the configuration object of the active module
\* leaves the live subscriptions, the statics that hold them, the scheduler
\* context and the registered applications as they were.
C6_ReloadKeepsSubscriptions ==
    [][(state = "Active" /\ state' = "Active" /\ confs' # confs) =>
          /\ topicSubs' = topicSubs
          /\ manager' = manager
          /\ sub' = sub
          /\ stasis_app_sched_context' = stasis_app_sched_context
          /\ registered_apps' = registered_apps]_vars

\* the module runs with publish_channel_events set by a reload and without a
\* channel subscription
C6_Witness ==
    /\ state = "Active"
    /\ ~loaded.chan
    /\ confs.publish_channel_events
    /\ topicSubs["channel"] = 0
    /\ sub = "NULL"

\* C7: a callback makes at most one publish call for its event: a failed
\* publish leaves the count at one, a failure before the call leaves it at
\* zero, and nothing of the event is kept once the callback has returned.
C7_AtMostOnePublish ==
    \A v \in Variants :
        /\ out[v].calls <= 1
        /\ out[v].status \in {"published", "publish_failed"} => out[v].calls = 1
        /\ out[v].status \in {"build_failed", "not_configured", "no_connection",
                              "dump_failed"} =>
              out[v].calls = 0 /\ out[v].pub = NoPub
        /\ pc[v] = "idle" => ev[v] = NoEvent /\ out[v] = NoOut

\* a publish call failed and was not repeated
C7_Witness ==
    \E v \in Variants :
        /\ pc[v] = "done"
        /\ out[v].status = "publish_failed"
        /\ out[v].calls = 1

\* C8 as stated: a callback whose event fails does not fault: it returns
\* and the process goes on.
C8_FailureContained ==
    \A v \in Variants :
        out[v].status \in {"build_failed", "not_configured", "no_connection",
                            "dump_failed", "no_header_table", "publish_failed"}
            => pc[v] # "fault" /\ ~Crashed

\* C9 as stated: in every callback a message without a type is dropped
\* without a publish call and without a fault.
C9_NoTypeDropped ==
    \A v \in Variants :
        (ev[v] # NoEvent /\ ev[v].type = NULL) =>
            /\ pc[v] # "fault"
            /\ out[v].calls = 0

\* C10 as stated: the module becomes active only with a configuration that
\* names a connection and an exchange.
C10_RequiredFieldsOrDecline ==
    [][(state = "Unloaded" /\ state' = "Active") =>
          (confs'.connection # "" /\ confs'.exchange # "")]_vars

\* C10 amended: load_module declines, and leaves no subscription, when
\* load_config fails; a load that meets no failure succeeds, also with a
\* configuration that leaves connection or exchange at its default "".
C10_ConfigFailureDeclines ==
    /\ loadFailure = "config" =>
          /\ loadResult = "decline"
          /\ state = "Unloaded"
          /\ \A t \in Topics : topicSubs[t] = 0
    /\ (loadResult # "none" /\ loadFailure = "none") => loadResult = "success"
    /\ loadResult = "success" => loadFailure = "none"

\* the module was loaded from a file that sets neither connection nor exchange
C10_Witness ==
    /\ state = "Active"
    /\ loadResult = "success"
    /\ confs.connection = ""
    /\ confs.exchange = ""
    /\ \E t \in Topics : topicSubs[t] > 0

\* C11: for every prefix and every non-empty suffix, the key new_routing_key
\* returns is the prefix, a dot, and the suffix with its upper-case letters
\* lowered and every other character (a dot, a blank) as it was.
C11_RoutingKeyIsPrefixDotLowered ==
    (call.fn = "new_routing_key" /\ call.done /\ ~call.result.null
        /\ call.suffix # << >>) =>
      LET key == call.result.text
          n == Len(call.prefix)
      IN  /\ Len(key) = n + 1 + Len(call.suffix)
          /\ SubSeq(key, 1, n) = call.prefix
          /\ key[n + 1] = "."
          /\ \A i \in 1..Len(call.suffix) :
                key[n + 1 + i] = (IF call.suffix[i] = "A" THEN "a" ELSE call.suffix[i])

\* a key was built from a suffix with an upper-case letter, a dot and a blank
C11_Witness ==
    /\ call.fn = "new_routing_key" /\ call.done
    /\ call.prefix = << "a", "m", "i" >>
    /\ call.suffix = << "A", ".", " " >>
    /\ call.result = [null |-> FALSE, text |-> << "a", "m", "i", ".", "a", ".", " " >>]

\* C12 as stated: new_routing_key returns no key for an empty suffix.
C12_EmptySuffixRejected ==
    (call.fn = "new_routing_key" /\ call.done /\ call.suffix = << >>) =>
        call.result.null

\* C12 amended: for an empty suffix new_routing_key, when it returns a key,
\* returns the prefix followed by a dot.
C12_EmptySuffixGivesPrefixDot ==
    (call.fn = "new_routing_key" /\ call.done /\ call.suffix = << >>
        /\ ~call.result.null) =>
        call.result.text = call.prefix \o << "." >>

\* the key "stasis.app." was returned for an empty suffix
C12_Witness ==
    /\ call.fn = "new_routing_key" /\ call.done
    /\ call.suffix = << >>
    /\ call.result =
         [null |-> FALSE,
          text |-> << "s", "t", "a", "s", "i", "s", ".", "a", "p", "p", "." >>]

\* the text of a sequence of characters
RECURSIVE Str(_)
Str(chars) == IF chars = << >> THEN "" ELSE Head(chars) \o Str(Tail(chars))

\* C13: every publish call carries the routing key, the headers and the
\* envelope of its callback: the channel callback "stasis.channel." and the
\* lowered event type, headers name and category "stasis", an envelope of
\* name and data; the application callback "stasis.app." and the lowered
\* application name, the header application_name and the envelope member
\* application besides; the manager callback "ami." and the lowered event
\* name, headers name and category "ami", an envelope of name and data.
C13_PublishCarriesVariantKeyAndHeaders ==
    \A v \in Variants :
        out[v].pub # NoPub =>
          LET p == out[v].pub IN
          /\ v = "A" =>
                /\ Str(p.routing_key) =
                      (IF name[v] = "ChannelCreated"
                       THEN "stasis.channel.channelcreated"
                       ELSE "stasis.channel.channelvarset")
                /\ p.headers = [name |-> name[v], category |-> "stasis"]
                /\ DOMAIN p.body = {"name", "data"}
                /\ p.body.name = name[v]
          /\ v = "B" =>
                /\ ev[v].app = "myApp"
                /\ Str(p.routing_key) = "stasis.app.myapp"
                /\ p.headers = [name |-> name[v], category |-> "stasis",
                                application_name |-> "myApp"]
                /\ DOMAIN p.body = {"name", "data", "application"}
                /\ p.body.name = name[v]
                /\ p.body.application = "myApp"
          /\ v = "C" =>
                /\ Str(p.routing_key) =
                      (IF name[v] = "Newstate" THEN "ami.newstate"
                       ELSE "ami.channelvarset")
                /\ p.headers = [name |-> name[v], category |-> "ami"]
                /\ DOMAIN p.body = {"name", "data"}
                /\ p.body.name = name[v]

\* an application event was published under the application's key
C13_Witness ==
    /\ pc["B"] = "done"
    /\ out["B"].status = "published"
    /\ name["B"] = "ChannelCreated"
    /\ Str(out["B"].pub.routing_key) = "stasis.app.myapp"
    /\ out["B"].pub.headers.application_name = "myApp"

\* a line as its "Key: value" reading: the key is the text before the first
\* colon or space, the value all the text after that run of colons and spaces
IsSeparator(c) == c \in {":", " "}
FirstSeparator(line) ==
    CHOOSE i \in DOMAIN line :
        IsSeparator(line[i]) /\ \A k \in 1..(i - 1) : ~IsSeparator(line[k])
ValueStart(line) ==
    CHOOSE j \in DOMAIN line :
        /\ j > FirstSeparator(line) /\ ~IsSeparator(line[j])
        /\ \A k \in FirstSeparator(line)..(j - 1) : IsSeparator(line[k])
HasKeyAndValue(line) ==
    \E i \in DOMAIN line :
        /\ IsSeparator(line[i])
        /\ \E j \in DOMAIN line : j > i /\ ~IsSeparator(line[j])
KeyOf(line) == SubSeq(line, 1, FirstSeparator(line) - 1)
ValueOf(line) == SubSeq(line, ValueStart(line), Len(line))

\* the object with Event and one member per line that has a key and a value,
\* the last line of a key giving its value
KeyValueObject(event_name, fields) ==
    LET lines == IF fields.null THEN << >> ELSE strsep(fields.text, {"\r", "\n"})
        good == {i \in DOMAIN lines : HasKeyAndValue(lines[i])}
        last(k) == CHOOSE i \in good :
                       KeyOf(lines[i]) = k /\ \A j \in good : KeyOf(lines[j]) = k => j <= i
    IN  [k \in {EventKey} \cup {KeyOf(lines[i]) : i \in good} |->
            IF \E i \in good : KeyOf(lines[i]) = k
            THEN ValueOf(lines[last(k)]) ELSE event_name]

\* C14: the data of a manager event holds Event and, for every line of the
\* blob's fields with a key and a value, the key (the text before the first
\* colon or space) with the value (the text after that boundary); a line
\* without a value is skipped.  Violated: the code keeps the last word only.
C14_FieldsParsedAsKeyValue ==
    (call.fn = "manager_event_to_json" /\ call.done /\ call.result.rc = 0)
        => call.result.json = KeyValueObject(call.event_name, call.fields)

\* the claim's own example is parsed as the claim says
C14_ExampleParsed ==
    (/\ call.fn = "manager_event_to_json" /\ call.done /\ call.result.rc = 0
     /\ call.fields = Text(ChannelStateFields))
        => /\ DOMAIN call.result.json = {EventKey, Chars("Channel"), Chars("State")}
           /\ Str(call.result.json[EventKey]) = "Newstate"
           /\ Str(call.result.json[Chars("Channel")]) = "SIP/100"
           /\ Str(call.result.json[Chars("State")]) = "Up"

\* a value of two words loses its first word
C14_ValueTruncated ==
    /\ call.fn = "manager_event_to_json" /\ call.done /\ call.result.rc = 0
    /\ call.fields = Text(CallerIDNameFields)
    /\ Str(call.result.json[Chars("CallerIDName")]) = "Doe"

\* C15: once unload_module has returned, no application registered through
\* ast_subscribe_to_stasis is still registered and the application callback
\* does not run.  Violated: unload_module unregisters no application.
C15_AppSubscriptionsTornDown ==
    unloadDone => (registered_apps = {} /\ pc["B"] = "idle")

\* the steps a callback that has started can take, its return included
HandlerStep(v) ==
    \/ StepExcluded(v)
    \/ StepIncluded(v)
    \/ \E built \in BOOLEAN : StepPublishEnter(v, built)
    \/ \E resolved \in BOOLEAN, dumped \in BOOLEAN, alloc \in BOOLEAN, ok \in BOOLEAN :
          StepPublishSend(v, resolved, dumped, alloc, ok)
    \/ Return(v)

\* C16: no operation blocks: a callback that has started can always take its
\* next step, up to its return, whatever the broker answers, and an unload
\* that has started can always take its next step, up to Unloaded.
\* Violated: a callback or the unload that faults never returns.
C16_NoOperationBlocks ==
    /\ \A v \in Variants : pc[v] # "idle" => ENABLED HandlerStep(v)
    /\ state = "Unloading" => ENABLED (UnloadSub \/ UnloadManager)

\* the same where nothing has faulted: the broker being unreachable, a
\* publish error or a join never stop a callback or the unload
C16_NoBlockWithoutFault ==
    ~Crashed => C16_NoOperationBlocks

\* C17: both ARI operations test the application name before they hand it
\* on: a missing or empty name is answered with a client error and the
\* registry is left as it was, a name is handed on (subscribe registers the
\* application, unsubscribe unregisters it).  Violated: unsubscribe tests
\* and hands on nothing, subscribe takes the empty name.
C17_ControlOperationsValidateAndDelegate ==
    (call.fn \in AriFunctions /\ call.done /\ call.connection # NULL) =>
        IF call.application_name \in {NULL, ""}
        THEN call.response = 400 /\ registered_apps = call.before
        ELSE IF call.fn = "ast_ari_amqp_stasis_subscribe"
        THEN call.application_name \in registered_apps
        ELSE call.application_name \notin registered_apps

\* what the two operations do: subscribe answers 400 to a null name or a
\* null connection and registers any other name, the empty one included;
\* unsubscribe answers 204 and leaves the registry as it was
C17_SubscribeChecksNullOnly ==
    (call.fn \in AriFunctions /\ call.done) =>
        IF call.fn = "ast_ari_amqp_stasis_unsubscribe"
        THEN call.response = 204 /\ registered_apps = call.before
        ELSE IF call.application_name = NULL \/ call.connection = NULL
        THEN call.response = 400 /\ registered_apps = call.before
        ELSE /\ call.response = 204
             /\ registered_apps = call.before \cup {call.application_name}

\* C18: a load that fails, at whatever step, leaves the module Unloaded with
\* no live subscription on either topic: the subscriptions it had created
\* were unsubscribed and joined before it returned.
C18_FailedLoadLeavesNoSubscription ==
    loadResult = "decline" =>
        /\ state = "Unloaded"
        /\ \A t \in Topics : topicSubs[t] = 0
        /\ manager # "valid"
        /\ sub # "valid"

\* the scheduler thread failed to start after both subscriptions were
\* created, and both were unsubscribed
C18_Witness ==
    /\ loadResult = "decline"
    /\ loadFailure = "sched_start"
    /\ loaded.ami /\ loaded.chan
    /\ manager = "freed" /\ sub = "freed"
    /\ \A t \in Topics : topicSubs[t] = 0

\* C19: publish_to_amqp gives up as not configured whenever the snapshot's
\* connection or exchange is unset, the empty default of an absent option
\* included: no connection is resolved under an unset name and no publish
\* call names an unset connection or exchange.  Violated: the code tests the
\* string fields for null pointers, which they never are.
C19_UnsetNamesNotConfigured ==
    \A v \in Variants :
        /\ pc[v] = "basic_publish" =>
              (pconf[v].connection # "" /\ pconf[v].exchange # "")
        /\ out[v].pub # NoPub =>
              (out[v].pub.connection # "" /\ out[v].pub.exchange # "")

\* reached: with exchange absent from the file a message is published to
\* the empty exchange
C19_PublishedToEmptyExchange ==
    \E v \in Variants :
        /\ out[v].status = "published"
        /\ out[v].pub.connection = "amqp"
        /\ out[v].pub.exchange = ""

\* C20: when the connection cannot be resolved publish_to_amqp returns its
\* error with no publish call made, and whenever it has returned, with
\* success or with any error, the callback holds no reference to a
\* connection and no allocated header table.
C20_PublishReleasesConnectionAndTable ==
    \A v \in Variants :
        pc[v] = "done" =>
            /\ out[v].conn = 0
            /\ out[v].header_table \in {"none", "freed"}
            /\ out[v].status = "no_connection" =>
                  (out[v].calls = 0 /\ out[v].pub = NoPub)
            /\ out[v].status \in {"published", "publish_failed"} =>
                  out[v].header_table = "freed"

\* publish_to_amqp has returned for want of a connection
C20_Witness ==
    \E v \in Variants :
        /\ pc[v] = "done"
        /\ out[v].status = "no_connection"
        /\ pconf[v].connection = "amqp"
        /\ out[v].calls = 0
        /\ out[v].conn = 0

C22_NullVariableHandled ==
    \A v \in {"A", "B"} :
        (pc[v] # "idle" /\ name[v] = "ChannelVarset" /\ ev[v].variable = NULL) =>
            /\ pc[v] # "fault"
            /\ out[v].status # "no_variable"
            /\ out[v].pub # NoPub => seen[v].included

\* C23: when a callback returns, on whatever path, it has given up every
\* reference to the event document it took or created: the document's
\* count is what it was at entry (application callback) or zero (channel
\* and manager callbacks).  Violated: the channel callback returns from the
\* exclude and the include filter holding the document it was given.
C23_DocumentRefsBalanced ==
    \A v \in Variants : pc[v] = "done" => out[v].json_refs = 0

\* C24: whenever unload_module calls stasis_unsubscribe_and_join, the static
\* it passes holds a subscription that was created and is still live,
\* whatever loads and reloads came before.  Violated: the calls are made
\* under the flags of the snapshot current at unload.
C24_UnloadUnsubscribesLiveOnly ==
    /\ (upc = "unsub_sub" /\ UnloadUnsubscribes(uconf, "channel")) => sub = "valid"
    /\ (upc = "unsub_manager" /\ UnloadUnsubscribes(uconf, "manager")) =>
          manager = "valid"

====
